---------------------------- MODULE Spec2Model ----------------------------
(***************************************************************************)
(* Model of vulkano's UnsafeCommandBufferBuilder and of its buffer append  *)
(* operations copy_buffer_untyped, fill_buffer_untyped and                 *)
(* update_buffer_untyped (src/vulkano/src/command_buffer/sys/).            *)
(*                                                                         *)
(* The builder is a value that every append operation takes by move        *)
(* (`mut self`) and gives back only inside Ok(..): when an operation       *)
(* returns Err(..) or panics, the builder it was called on is dropped by   *)
(* the callee.  The fields of the builder are the variables below; the     *)
(* variable `builder` says whether the caller still owns it.  After a drop *)
(* the field variables keep the value the builder had when the call ended. *)
(*                                                                         *)
(* usize and vk::DeviceSize are modelled as unsigned words of UsizeBits    *)
(* bits (a 64-bit target, where both types have the same width, scaled     *)
(* down).  `a + b` on such words panics when the build has overflow checks *)
(* (debug profile) and wraps modulo 2^UsizeBits otherwise (release         *)
(* profile); the profile is the variable overflow_checks, fixed by Init.   *)
(***************************************************************************)
EXTENDS Integers, Sequences, FiniteSets, TLC

VARIABLES
    cmd,                        \* commands recorded in the native command buffer
    device,                     \* device of the builder
    pool,                       \* command pool: its device and its queue family
    keep_alive,                 \* Vec<Arc<KeepAlive>>
    current_graphics_pipeline,  \* Option<vk::Pipeline>
    current_compute_pipeline,   \* Option<vk::Pipeline>
    current_dynamic_state,      \* DynamicState
    secondary_cb,               \* bool
    within_render_pass,         \* bool
    builder,                    \* "held": the caller owns the builder; "dropped"
    overflow_checks,            \* build profile: TRUE = `+` panics on overflow
    call,                       \* the last append call and its arguments
    result                      \* what that call returned

fields == <<cmd, device, pool, keep_alive, current_graphics_pipeline,
            current_compute_pipeline, current_dynamic_state, secondary_cb,
            within_render_pass>>

vars == <<cmd, device, pool, keep_alive, current_graphics_pipeline,
          current_compute_pipeline, current_dynamic_state, secondary_cb,
          within_render_pass, builder, overflow_checks, call, result>>

---------------------------------------------------------------------------
(* Bounds of the model *)

\* width of usize / vk::DeviceSize in bits
UsizeBits == 17

\* longest region list passed to one copy call
MaxRegions == 2

\* number of native commands after which no further call is made
MaxCmds == 2

---------------------------------------------------------------------------
(* Machine words *)

UsizeModulus == 2 ^ UsizeBits

UsizeMax == UsizeModulus - 1

\* a + b does not fit the word
Overflows(a, b) == a + b > UsizeMax

\* a + b as the release profile computes it
WrappingAdd(a, b) == (a + b) % UsizeModulus

---------------------------------------------------------------------------
(* Devices, pools and buffers *)

Devices == {"devA", "devB"}

None == "None"

\* a command pool: the device it belongs to and the capabilities of its
\* queue family
Pools == [device : {"devA"}, supports_graphics : BOOLEAN, supports_compute : BOOLEAN]

\* sizes of the buffers of the model, in bytes
BufferSizes == {4, 8}

\* A buffer (what Arc<B: Buffer> points to).  Two buffers are the same
\* underlying object (inner_buffer().internal_object()) iff the records are
\* equal.
Buffers ==
    [device : Devices, usage_transfer_src : BOOLEAN, usage_transfer_dest : BOOLEAN,
     size : BufferSizes]

internal_object(buffer) == buffer

---------------------------------------------------------------------------
(* Results *)

Ok == [tag |-> "Ok", err |-> None]

Err(e) == [tag |-> "Err", err |-> e]

Panic == [tag |-> "Panic", err |-> None]

\* the checks made so far let the call go on
Pass == [tag |-> "Pass", err |-> None]

NoCall == [op |-> None]

---------------------------------------------------------------------------
(* copy_buffer_untyped: the checks *)

\* a BufferCopyRegion
Region(so, do, sz) == [source_offset |-> so, destination_offset |-> do, size |-> sz]

\* a vk::BufferCopy with the two offsets exchanged
BufferCopySwapped(region) ==
    [srcOffset |-> region.destination_offset, dstOffset |-> region.source_offset,
     size |-> region.size]

\* the vk::BufferCopy pushed for a region
BufferCopy(region) ==
    [srcOffset |-> region.source_offset, dstOffset |-> region.destination_offset,
     size |-> region.size]

\* outcome of evaluating `a + b > limit`: "panic", "yes" or "no"
SumExceeds(a, b, limit) ==
    IF Overflows(a, b) /\ overflow_checks THEN "panic"
    ELSE IF WrappingAdd(a, b) > limit THEN "yes"
    ELSE "no"

\* the checks on one region with the regions of size 0 skipped first
RegionCheckSkipFirst(region, src, dest) ==
    LET s == SumExceeds(region.source_offset, region.size, src.size)
        d == SumExceeds(region.destination_offset, region.size, dest.size)
    IN  IF region.size = 0 THEN "skip"
        ELSE IF s = "panic" THEN "panic"
        ELSE IF s = "yes" THEN "OutOfRange"
        ELSE IF d = "panic" THEN "panic"
        ELSE IF d = "yes" THEN "OutOfRange"
        ELSE "push"

\* the checks made on one region of the input, in the order of the loop body:
\* "panic", "OutOfRange", "skip" (size 0) or "push"
RegionCheck(region, src, dest) ==
    LET s == SumExceeds(region.source_offset, region.size, src.size)
        d == SumExceeds(region.destination_offset, region.size, dest.size)
    IN  IF s = "panic" THEN "panic"
        ELSE IF s = "yes" THEN "OutOfRange"
        ELSE IF d = "panic" THEN "panic"
        ELSE IF d = "yes" THEN "OutOfRange"
        ELSE IF region.size = 0 THEN "skip"
        ELSE "push"

\* "Building the list of regions": the loop over the input; res is the
\* SmallVec built so far
RECURSIVE BuildRegions(_, _, _, _)
BuildRegions(regions, src, dest, res) ==
    IF regions = <<>> THEN [tag |-> "Ok", err |-> None, regions |-> res]
    ELSE LET region == Head(regions)
             c == RegionCheck(region, src, dest)
         IN  IF c = "panic" THEN [tag |-> "Panic", err |-> None, regions |-> <<>>]
             ELSE IF c = "OutOfRange"
                  THEN [tag |-> "Err", err |-> "OutOfRange", regions |-> <<>>]
             ELSE IF c = "skip" THEN BuildRegions(Tail(regions), src, dest, res)
             ELSE BuildRegions(Tail(regions), src, dest, Append(res, BufferCopy(region)))

\* the test with a strict comparison at the end of the interval
ReachesStrict(a, sa, b) ==
    IF ~(a <= b) THEN "no"
    ELSE IF Overflows(a, sa) /\ overflow_checks THEN "panic"
    ELSE IF WrappingAdd(a, sa) > b THEN "yes"
    ELSE "no"

\* outcome of evaluating `a <= b && a + sa >= b`: "panic", "yes" or "no"
Reaches(a, sa, b) ==
    IF ~(a <= b) THEN "no"
    ELSE IF Overflows(a, sa) /\ overflow_checks THEN "panic"
    ELSE IF WrappingAdd(a, sa) >= b THEN "yes"
    ELSE "no"

\* the tests of a pair without those for a second region that starts first
PairTestsFirstStartsFirst(r1, r2, same) ==
    <<Reaches(r1.srcOffset, r1.size, r2.srcOffset),
      Reaches(r1.dstOffset, r1.size, r2.dstOffset)>>
    \o (IF same
        THEN <<Reaches(r1.srcOffset, r1.size, r2.dstOffset)>>
        ELSE <<>>)

\* the tests of a pair with the source against destination tests made for
\* different buffer objects too
PairTestsAlwaysCross(r1, r2, same) ==
    <<Reaches(r1.srcOffset, r1.size, r2.srcOffset),
      Reaches(r2.srcOffset, r2.size, r1.srcOffset),
      Reaches(r1.dstOffset, r1.size, r2.dstOffset),
      Reaches(r2.dstOffset, r2.size, r1.dstOffset),
      Reaches(r1.srcOffset, r1.size, r2.dstOffset),
      Reaches(r2.srcOffset, r2.size, r1.dstOffset)>>

\* the tests made on the pair (r1, r2) of the overlap loop, in order
PairTests(r1, r2, same) ==
    <<Reaches(r1.srcOffset, r1.size, r2.srcOffset),
      Reaches(r2.srcOffset, r2.size, r1.srcOffset),
      Reaches(r1.dstOffset, r1.size, r2.dstOffset),
      Reaches(r2.dstOffset, r2.size, r1.dstOffset)>>
    \o (IF same
        THEN <<Reaches(r1.srcOffset, r1.size, r2.dstOffset),
               Reaches(r2.srcOffset, r2.size, r1.dstOffset)>>
        ELSE <<>>)

\* the first test of a sequence that does not say "no", or "no"
RECURSIVE FirstHit(_)
FirstHit(tests) ==
    IF tests = <<>> THEN "no"
    ELSE IF Head(tests) # "no" THEN Head(tests)
    ELSE FirstHit(Tail(tests))

\* the pairs (r1, r2), r1 < r2, in the order the nested loops visit them
RECURSIVE PairsFrom(_, _, _)
PairsFrom(r1, r2, n) ==
    IF r1 > n THEN <<>>
    ELSE IF r2 > n THEN PairsFrom(r1 + 1, r1 + 2, n)
    ELSE <<(<<r1, r2>>)>> \o PairsFrom(r1, r2 + 1, n)

\* the overlap check with the first region compared with itself too
CheckOverlapsWithSelf(regs, same) ==
    LET pairs == PairsFrom(1, 1, Len(regs))
        tests == [i \in 1..Len(pairs) |->
                    FirstHit(PairTests(regs[pairs[i][1]], regs[pairs[i][2]], same))]
    IN  FirstHit(tests)

\* "Checking for overlaps": "panic", "yes" or "no"
CheckOverlaps(regs, same) ==
    LET pairs == PairsFrom(1, 2, Len(regs))
        tests == [i \in 1..Len(pairs) |->
                    FirstHit(PairTests(regs[pairs[i][1]], regs[pairs[i][2]], same))]
    IN  FirstHit(tests)

\* the checks of copy with the device assertions first
CopyGuardDeviceFirst(src, dest) ==
    IF src.device # pool.device THEN Panic
    ELSE IF dest.device # pool.device THEN Panic
    ELSE IF within_render_pass THEN Err("ForbiddenWithinRenderPass")
    ELSE IF ~src.usage_transfer_src \/ ~dest.usage_transfer_dest
         THEN Err("WrongUsageFlag")
    ELSE Pass

\* the checks of copy without the assertion on the destination
CopyGuardNoDestAssert(src, dest) ==
    IF within_render_pass THEN Err("ForbiddenWithinRenderPass")
    ELSE IF src.device # pool.device THEN Panic
    ELSE IF ~src.usage_transfer_src \/ ~dest.usage_transfer_dest
         THEN Err("WrongUsageFlag")
    ELSE Pass

\* the checks of copy rejecting only when both usage flags are missing
CopyGuardBothFlags(src, dest) ==
    IF within_render_pass THEN Err("ForbiddenWithinRenderPass")
    ELSE IF src.device # pool.device THEN Panic
    ELSE IF dest.device # pool.device THEN Panic
    ELSE IF ~src.usage_transfer_src /\ ~dest.usage_transfer_dest
         THEN Err("WrongUsageFlag")
    ELSE Pass

\* the "Various safety checks" of copy: a result, or Pass
CopyGuard(src, dest) ==
    IF within_render_pass THEN Err("ForbiddenWithinRenderPass")
    ELSE IF src.device # pool.device THEN Panic
    ELSE IF dest.device # pool.device THEN Panic
    ELSE IF ~src.usage_transfer_src \/ ~dest.usage_transfer_dest
         THEN Err("WrongUsageFlag")
    ELSE Pass

\* What copy_buffer_untyped returns, with the list of vk::BufferCopy it built
\* (empty when the call ended before the list was complete)
CopyResult(src, dest, regions) ==
    LET g == CopyGuard(src, dest)
        b == BuildRegions(regions, src, dest, <<>>)
        o == CheckOverlaps(b.regions, internal_object(src) = internal_object(dest))
    IN  IF g # Pass THEN [tag |-> g.tag, err |-> g.err, regions |-> <<>>]
        ELSE IF b.tag # "Ok" THEN b
        ELSE IF b.regions = <<>> THEN b
        ELSE IF o = "panic" THEN [tag |-> "Panic", err |-> None, regions |-> b.regions]
        ELSE IF o = "yes"
             THEN [tag |-> "Err", err |-> "OverlappingRegions", regions |-> b.regions]
        ELSE b

---------------------------------------------------------------------------
(* fill_buffer_untyped and update_buffer_untyped: the checks *)

\* a BufferSlice: a buffer, an offset and a size in bytes
Slice(b, offset, size) == [buffer |-> b, offset |-> offset, size |-> size]

\* fill with the alignment check made on the offset alone
FillResultOffsetOnly(buffer) ==
    IF within_render_pass THEN Err("ForbiddenWithinRenderPass")
    ELSE IF buffer.buffer.device # pool.device THEN Panic
    ELSE IF ~buffer.buffer.usage_transfer_src THEN Err("WrongUsageFlag")
    ELSE IF (buffer.offset % 4) # 0 THEN Err("WrongAlignment")
    ELSE IF buffer.size = 0 THEN Ok
    ELSE IF ~pool.supports_graphics /\ ~pool.supports_compute
         THEN Err("NotSupportedByQueueFamily")
    ELSE Ok

\* What fill_buffer_untyped returns
FillResult(buffer) ==
    IF within_render_pass THEN Err("ForbiddenWithinRenderPass")
    ELSE IF buffer.buffer.device # pool.device THEN Panic
    ELSE IF ~buffer.buffer.usage_transfer_src THEN Err("WrongUsageFlag")
    ELSE IF (buffer.offset % 4) # 0 \/ (buffer.size % 4) # 0
         THEN Err("WrongAlignment")
    ELSE IF buffer.size = 0 THEN Ok
    ELSE IF ~pool.supports_graphics /\ ~pool.supports_compute
         THEN Err("NotSupportedByQueueFamily")
    ELSE Ok

\* the largest slice update_buffer_untyped accepts is one byte smaller
UpdateSizeLimit == 65536

\* update rejecting data of the size of the slice
UpdateResultDataNotLarger(buffer, data_size) ==
    IF within_render_pass THEN Err("ForbiddenWithinRenderPass")
    ELSE IF buffer.buffer.device # pool.device THEN Panic
    ELSE IF ~buffer.buffer.usage_transfer_src THEN Err("WrongUsageFlag")
    ELSE IF (buffer.offset % 4) # 0 \/ (buffer.size % 4) # 0
         THEN Err("WrongAlignment")
    ELSE IF buffer.size = 0 THEN Ok
    ELSE IF buffer.size >= UpdateSizeLimit THEN Err("RegionTooLarge")
    ELSE IF data_size <= buffer.size THEN Err("DataTooSmall")
    ELSE Ok

\* What update_buffer_untyped returns; data_size is mem::size_of_val(data)
UpdateResult(buffer, data_size) ==
    IF within_render_pass THEN Err("ForbiddenWithinRenderPass")
    ELSE IF buffer.buffer.device # pool.device THEN Panic
    ELSE IF ~buffer.buffer.usage_transfer_src THEN Err("WrongUsageFlag")
    ELSE IF (buffer.offset % 4) # 0 \/ (buffer.size % 4) # 0
         THEN Err("WrongAlignment")
    ELSE IF buffer.size = 0 THEN Ok
    ELSE IF buffer.size >= UpdateSizeLimit THEN Err("RegionTooLarge")
    ELSE IF data_size < buffer.size THEN Err("DataTooSmall")
    ELSE Ok

---------------------------------------------------------------------------
(* The native commands *)

CmdCopyBuffer(src, dest, regs) ==
    [op |-> "CmdCopyBuffer", srcBuffer |-> internal_object(src),
     dstBuffer |-> internal_object(dest), regionCount |-> Len(regs), pRegions |-> regs]

CmdFillBuffer(buffer, data) ==
    [op |-> "CmdFillBuffer", dstBuffer |-> internal_object(buffer.buffer),
     dstOffset |-> buffer.offset, size |-> buffer.size, data |-> data]

CmdUpdateBuffer(buffer, data_size) ==
    [op |-> "CmdUpdateBuffer", dstBuffer |-> internal_object(buffer.buffer),
     dstOffset |-> buffer.offset, dataSize |-> buffer.size \div 4,
     pData |-> data_size]

\* the buffers a native command names
CommandBuffers(c) ==
    IF c.op = "CmdCopyBuffer" THEN {c.srcBuffer, c.dstBuffer} ELSE {c.dstBuffer}

---------------------------------------------------------------------------
(* The append operations *)

\* a push that is forgotten
PushNothing(vec, x) == vec

\* a push at the front of the list
PushFront(vec, x) == <<x>> \o vec

\* a push that skips a resource the list already holds
PushDedup(vec, x) == IF \E i \in 1..Len(vec) : vec[i] = x THEN vec ELSE Append(vec, x)

\* Vec::push
Push(vec, x) == Append(vec, x)

\* the command is added as soon as the list of regions is built, before the
\* overlap check
CopyRecordsBeforeOverlapCheck(r) == r.regions # <<>>

\* copy reaches "Now adding the command"
CopyRecords(r) == r.tag = "Ok" /\ r.regions # <<>>

\* fill and update add their command for a slice of size 0 too
SliceRecordsEmptySlice(r, buffer) == r.tag = "Ok"

\* fill and update reach "Adding the command"
SliceRecords(r, buffer) == r.tag = "Ok" /\ buffer.size # 0

\* what a call that returns r leaves of the builder: Ok(self) gives it back,
\* Err and a panic drop it
Returned(r) == IF r.tag = "Ok" THEN "held" ELSE "dropped"

copy_buffer_untyped(src, dest, regions) ==
    /\ builder = "held"
    /\ LET r == CopyResult(src, dest, regions)
       IN  /\ call' = [op |-> "copy", src |-> src, dest |-> dest, regions |-> regions]
           /\ result' = [tag |-> r.tag, err |-> r.err]
           /\ builder' = Returned(r)
           /\ keep_alive' = IF CopyRecords(r) THEN Push(Push(keep_alive, src), dest)
                            ELSE keep_alive
           /\ cmd' = IF CopyRecords(r) THEN Append(cmd, CmdCopyBuffer(src, dest, r.regions))
                     ELSE cmd
    /\ UNCHANGED <<device, pool, current_graphics_pipeline, current_compute_pipeline,
                   current_dynamic_state, secondary_cb, within_render_pass,
                   overflow_checks>>

\* fill leaving the compute bind point empty after recording its command
fill_buffer_untyped_unbinds(buffer, data) ==
    /\ builder = "held"
    /\ LET r == FillResult(buffer)
       IN  /\ call' = [op |-> "fill", buffer |-> buffer, data |-> data]
           /\ result' = r
           /\ builder' = Returned(r)
           /\ keep_alive' = IF SliceRecords(r, buffer) THEN Push(keep_alive, buffer.buffer)
                            ELSE keep_alive
           /\ cmd' = IF SliceRecords(r, buffer) THEN Append(cmd, CmdFillBuffer(buffer, data))
                     ELSE cmd
           /\ current_compute_pipeline' = IF SliceRecords(r, buffer) THEN None
                                          ELSE current_compute_pipeline
    /\ UNCHANGED <<device, pool, current_graphics_pipeline,
                   current_dynamic_state, secondary_cb, within_render_pass,
                   overflow_checks>>

fill_buffer_untyped(buffer, data) ==
    /\ builder = "held"
    /\ LET r == FillResult(buffer)
       IN  /\ call' = [op |-> "fill", buffer |-> buffer, data |-> data]
           /\ result' = r
           /\ builder' = Returned(r)
           /\ keep_alive' = IF SliceRecords(r, buffer) THEN Push(keep_alive, buffer.buffer)
                            ELSE keep_alive
           /\ cmd' = IF SliceRecords(r, buffer) THEN Append(cmd, CmdFillBuffer(buffer, data))
                     ELSE cmd
    /\ UNCHANGED <<device, pool, current_graphics_pipeline, current_compute_pipeline,
                   current_dynamic_state, secondary_cb, within_render_pass,
                   overflow_checks>>

update_buffer_untyped(buffer, data_size) ==
    /\ builder = "held"
    /\ LET r == UpdateResult(buffer, data_size)
       IN  /\ call' = [op |-> "update", buffer |-> buffer, data_size |-> data_size]
           /\ result' = r
           /\ builder' = Returned(r)
           /\ keep_alive' = IF SliceRecords(r, buffer) THEN Push(keep_alive, buffer.buffer)
                            ELSE keep_alive
           /\ cmd' = IF SliceRecords(r, buffer)
                     THEN Append(cmd, CmdUpdateBuffer(buffer, data_size))
                     ELSE cmd
    /\ UNCHANGED <<device, pool, current_graphics_pipeline, current_compute_pipeline,
                   current_dynamic_state, secondary_cb, within_render_pass,
                   overflow_checks>>

---------------------------------------------------------------------------
(* The builder after construction *)

\* A primary builder with nothing recorded.  The pool and the build profile
\* are arbitrary; so is within_render_pass, which the render pass commands
\* (not among the operations modelled here) set before the calls below.
Init ==
    /\ cmd = <<>>
    /\ device = "devA"
    /\ pool \in Pools
    /\ keep_alive = <<>>
    /\ current_graphics_pipeline = None
    /\ current_compute_pipeline = None
    /\ current_dynamic_state = "none"
    /\ secondary_cb = FALSE
    /\ within_render_pass \in BOOLEAN
    /\ builder = "held"
    /\ overflow_checks \in BOOLEAN
    /\ call = NoCall
    /\ result = [tag |-> None, err |-> None]

---------------------------------------------------------------------------
(* Spec: sequences of copy, fill and update calls on one builder *)

\* all the sequences over S of length at most n
SeqsUpTo(S, n) == UNION {[1..k -> S] : k \in 0..n}

\* the size of the buffers of the calls: large enough for a slice that
\* update rejects as too large
SeqBufferSize == UpdateSizeLimit + 4

\* the buffers of the calls: every combination of usage flags on the device
\* of the builder, and two buffers of another device
SeqBuffers ==
    [device : {"devA"}, usage_transfer_src : BOOLEAN, usage_transfer_dest : BOOLEAN,
     size : {SeqBufferSize}]
    \cup {[device |-> "devB", usage_transfer_src |-> f, usage_transfer_dest |-> f,
           size |-> SeqBufferSize] : f \in BOOLEAN}

\* the region lists of the copy calls: empty, of size 0 only, recorded, with
\* a region elided, out of range, overlapping
SeqRegionLists ==
    {<<>>,
     <<Region(0, 0, 0)>>,
     <<Region(0, 0, 4)>>,
     <<Region(0, 0, 0), Region(8, 8, 4)>>,
     <<Region(4, 0, SeqBufferSize)>>,
     <<Region(0, 0, 4), Region(0, 8, 4)>>}

\* the slices of the fill and update calls: aligned or not, empty or not,
\* small or at the size limit of update
SeqSlices == [buffer : SeqBuffers, offset : {0, 2}, size : {0, 2, 4, UpdateSizeLimit}]

\* the u32 written by fill
FillData == {7}

\* mem::size_of_val(data) of the update calls
SeqDataSizes == {0, 4}

Copy ==
    /\ builder = "held"
    /\ Len(cmd) < MaxCmds
    /\ \E src \in SeqBuffers, dest \in SeqBuffers :
         \E regions \in SeqRegionLists :
            copy_buffer_untyped(src, dest, regions)

Fill ==
    /\ builder = "held"
    /\ Len(cmd) < MaxCmds
    /\ \E buffer \in SeqSlices, data \in FillData : fill_buffer_untyped(buffer, data)

Update ==
    /\ builder = "held"
    /\ Len(cmd) < MaxCmds
    /\ \E buffer \in SeqSlices, data_size \in SeqDataSizes :
         update_buffer_untyped(buffer, data_size)

Next == Copy \/ Fill \/ Update

Spec == Init /\ [][Next]_vars

---------------------------------------------------------------------------
(* SpecCopy: one copy call on a fresh builder, over a larger set of region *)
(* lists and over buffers of two sizes                                     *)

InitCopy == Init /\ pool.supports_graphics /\ pool.supports_compute

\* buffers that pass the device and usage checks of copy
CopyBuffers ==
    [device : {"devA"}, usage_transfer_src : {TRUE}, usage_transfer_dest : {TRUE},
     size : BufferSizes]

CopyOffsets == {0, 6, UsizeMax}

CopySizes == {0, 2, UsizeMax}

CopyRegions ==
    [source_offset : CopyOffsets, destination_offset : CopyOffsets, size : CopySizes]

CopyCall ==
    /\ builder = "held"
    /\ call = NoCall
    /\ \E src \in CopyBuffers, dest \in CopyBuffers :
         \E regions \in SeqsUpTo(CopyRegions, MaxRegions) :
            copy_buffer_untyped(src, dest, regions)

NextCopy == CopyCall

SpecCopy == InitCopy /\ [][NextCopy]_vars

---------------------------------------------------------------------------
(* SpecOverlap: one copy call outside a render pass, between buffers that  *)
(* pass the checks, over region lists that are in bounds: the regions are  *)
(* apart, touch or overlap, and the source may be the destination          *)

InitOverlap == InitCopy /\ ~within_render_pass

OverlapBuffers ==
    [device : {"devA"}, usage_transfer_src : {TRUE}, usage_transfer_dest : {TRUE},
     size : {6, 8}]

OverlapOffsets == {0, 1, 3, 4}

OverlapSizes == {0, 1, 2}

OverlapRegions ==
    [source_offset : OverlapOffsets, destination_offset : OverlapOffsets,
     size : OverlapSizes]

OverlapCall ==
    /\ builder = "held"
    /\ call = NoCall
    /\ \E src \in OverlapBuffers, dest \in OverlapBuffers :
         \E regions \in SeqsUpTo(OverlapRegions, MaxRegions) :
            copy_buffer_untyped(src, dest, regions)

NextOverlap == OverlapCall

SpecOverlap == InitOverlap /\ [][NextOverlap]_vars

---------------------------------------------------------------------------
(* SpecSlice: one fill or update call, the slice and the data of any size *)

\* the size of the buffers: large enough for a slice above the size limit of
\* update at an offset
SliceBufferSize == UpdateSizeLimit + 8

\* every combination of usage flags on the device of the builder, and two
\* buffers of another device
SliceBuffers ==
    [device : {"devA"}, usage_transfer_src : BOOLEAN, usage_transfer_dest : BOOLEAN,
     size : {SliceBufferSize}]
    \cup {[device |-> "devB", usage_transfer_src |-> f, usage_transfer_dest |-> f,
           size |-> SliceBufferSize] : f \in BOOLEAN}

SliceOffsets == {0, 2, 4}

\* empty, unaligned, small, and below, at and above the size limit of update
SliceSizes == {0, 2, 4, UpdateSizeLimit - 4, UpdateSizeLimit, UpdateSizeLimit + 4}

\* the slices: ranges that lie within their buffer
Slices ==
    {s \in [buffer : SliceBuffers, offset : SliceOffsets, size : SliceSizes] :
        s.offset + s.size <= s.buffer.size}

\* mem::size_of_val(data): no data, small, and below, at and above the size
\* limit of update
SliceDataSizes == {0, 4, UpdateSizeLimit - 4, UpdateSizeLimit, UpdateSizeLimit + 4}

FillCall ==
    /\ builder = "held"
    /\ call = NoCall
    /\ \E buffer \in Slices, data \in FillData : fill_buffer_untyped(buffer, data)

UpdateCall ==
    /\ builder = "held"
    /\ call = NoCall
    /\ \E buffer \in Slices, data_size \in SliceDataSizes :
         update_buffer_untyped(buffer, data_size)

NextSlice == FillCall \/ UpdateCall

SpecSlice == Init /\ [][NextSlice]_vars

---------------------------------------------------------------------------
(* SpecState: one call on a builder in any state of its pipelines, dynamic
   state and secondary flag *)

\* what a bind point holds: nothing or a pipeline
Pipelines == {None, "pipelineA"}

DynamicStates == {"none", "viewport"}

\* A builder, primary or secondary, with nothing recorded by the operations
\* modelled here, whose bind points and dynamic state are as the binding
\* operations of the builder left them.
InitState ==
    /\ cmd = <<>>
    /\ device = "devA"
    /\ pool \in Pools
    /\ keep_alive = <<>>
    /\ current_graphics_pipeline \in Pipelines
    /\ current_compute_pipeline \in Pipelines
    /\ current_dynamic_state \in DynamicStates
    /\ secondary_cb \in BOOLEAN
    /\ within_render_pass \in BOOLEAN
    /\ builder = "held"
    /\ overflow_checks \in BOOLEAN
    /\ call = NoCall
    /\ result = [tag |-> None, err |-> None]

StateCopy ==
    /\ builder = "held"
    /\ call = NoCall
    /\ \E src \in SeqBuffers, dest \in SeqBuffers :
         \E regions \in SeqRegionLists :
            copy_buffer_untyped(src, dest, regions)

StateFill ==
    /\ builder = "held"
    /\ call = NoCall
    /\ \E buffer \in SeqSlices, data \in FillData : fill_buffer_untyped(buffer, data)

StateUpdate ==
    /\ builder = "held"
    /\ call = NoCall
    /\ \E buffer \in SeqSlices, data_size \in SeqDataSizes :
         update_buffer_untyped(buffer, data_size)

NextState == StateCopy \/ StateFill \/ StateUpdate

SpecState == InitState /\ [][NextState]_vars

---------------------------------------------------------------------------
(* Extensions: the extensions! and instance_extensions! macros *)

\* the members of InstanceExtensions and their names, as bytes, in declaration
\* order
InstanceExtensionsList ==
    <<[ext |-> "khr_surface",
       \* b"VK_KHR_surface"
       s |-> <<86, 75, 95, 75, 72, 82, 95, 115, 117, 114, 102, 97, 99,
           101>>],
      [ext |-> "khr_display",
       \* b"VK_KHR_display"
       s |-> <<86, 75, 95, 75, 72, 82, 95, 100, 105, 115, 112, 108, 97,
           121>>],
      [ext |-> "khr_xlib_surface",
       \* b"VK_KHR_xlib_surface"
       s |-> <<86, 75, 95, 75, 72, 82, 95, 120, 108, 105, 98, 95, 115,
           117, 114, 102, 97, 99, 101>>],
      [ext |-> "khr_xcb_surface",
       \* b"VK_KHR_xcb_surface"
       s |-> <<86, 75, 95, 75, 72, 82, 95, 120, 99, 98, 95, 115, 117,
           114, 102, 97, 99, 101>>],
      [ext |-> "khr_wayland_surface",
       \* b"VK_KHR_wayland_surface"
       s |-> <<86, 75, 95, 75, 72, 82, 95, 119, 97, 121, 108, 97, 110,
           100, 95, 115, 117, 114, 102, 97, 99, 101>>],
      [ext |-> "khr_mir_surface",
       \* b"VK_KHR_mir_surface"
       s |-> <<86, 75, 95, 75, 72, 82, 95, 109, 105, 114, 95, 115, 117,
           114, 102, 97, 99, 101>>],
      [ext |-> "khr_android_surface",
       \* b"VK_KHR_android_surface"
       s |-> <<86, 75, 95, 75, 72, 82, 95, 97, 110, 100, 114, 111, 105,
           100, 95, 115, 117, 114, 102, 97, 99, 101>>],
      [ext |-> "khr_win32_surface",
       \* b"VK_KHR_win32_surface"
       s |-> <<86, 75, 95, 75, 72, 82, 95, 119, 105, 110, 51, 50, 95,
           115, 117, 114, 102, 97, 99, 101>>],
      [ext |-> "ext_debug_report",
       \* b"VK_EXT_debug_report"
       s |-> <<86, 75, 95, 69, 88, 84, 95, 100, 101, 98, 117, 103, 95,
           114, 101, 112, 111, 114, 116>>]>>

\* the members of DeviceExtensions and their names, as bytes, in declaration
\* order
DeviceExtensionsList ==
    <<[ext |-> "khr_swapchain",
       \* b"VK_KHR_swapchain"
       s |-> <<86, 75, 95, 75, 72, 82, 95, 115, 119, 97, 112, 99, 104,
           97, 105, 110>>],
      [ext |-> "khr_display_swapchain",
       \* b"VK_KHR_display_swapchain"
       s |-> <<86, 75, 95, 75, 72, 82, 95, 100, 105, 115, 112, 108, 97,
           121, 95, 115, 119, 97, 112, 99, 104, 97, 105,
           110>>]>>

\* the member names of an extensions struct
Members(exts) == {exts[k].ext : k \in 1..Len(exts)}

\* the values of an extensions struct: one bool per member
ExtensionsValues(exts) == [Members(exts) -> BOOLEAN]

\* none(): all members false
none(exts) == [e \in Members(exts) |-> FALSE]

\* CString::new: the bytes followed by a NUL, or an error when a byte is NUL
CStringNew(bytes) ==
    IF \E i \in 1..Len(bytes) : bytes[i] = 0 THEN [nul_error |-> TRUE, bytes |-> <<>>]
    ELSE [nul_error |-> FALSE, bytes |-> Append(bytes, 0)]

\* build_extensions_list with the members pushed twice
RECURSIVE build_extensions_list_twice(_, _)
build_extensions_list_twice(exts, self) ==
    IF exts = <<>> THEN <<>>
    ELSE (IF self[Head(exts).ext]
          THEN <<CStringNew(Head(exts).s), CStringNew(Head(exts).s)>>
          ELSE <<>>)
         \o build_extensions_list_twice(Tail(exts), self)

\* build_extensions_list: the names of the members that are true, converted
\* and pushed in declaration order
RECURSIVE build_extensions_list(_, _)
build_extensions_list(exts, self) ==
    IF exts = <<>> THEN <<>>
    ELSE (IF self[Head(exts).ext] THEN <<CStringNew(Head(exts).s)>> ELSE <<>>)
         \o build_extensions_list(Tail(exts), self)

\* What build_extensions_list returns: unwrap panics on a conversion error
BuildResult(exts, self) ==
    LET data == build_extensions_list(exts, self)
    IN  IF \E i \in 1..Len(data) : data[i].nul_error THEN Panic
        ELSE [tag |-> "Ok", err |-> None, value |-> [i \in 1..Len(data) |-> data[i].bytes]]

\* intersection: member by member &&
intersection(self, other) == [e \in DOMAIN self |-> self[e] /\ other[e]]

\* name[i] of the NUL-terminated extensionName array, i counted from 0; name
\* is the sequence of the bytes before the NUL
NameAt(name, i) == IF i < Len(name) THEN name[i + 1] ELSE 0

\* the while loop of the comparison of name with $s, from index i: the index
\* it stops at, or -1 when $s[i] is read at i = $s.len() (index out of
\* bounds, a panic)
RECURSIVE ScanName(_, _, _)
ScanName(name, s, i) ==
    IF ~(NameAt(name, i) # 0) THEN i
    ELSE IF i >= Len(s) THEN -1
    ELSE IF ~(s[i + 1] # 0) THEN i
    ELSE IF ~(NameAt(name, i) = s[i + 1]) THEN i
    ELSE IF ~(i < Len(s)) THEN i
    ELSE ScanName(name, s, i + 1)

\* `same`: "panic", "yes" or "no"
Same(name, s) ==
    LET i == ScanName(name, s, 0)
    IN  IF i = -1 THEN "panic"
        ELSE IF NameAt(name, i) = 0 /\ (i >= Len(s) \/ NameAt(name, i) = s[i + 1])
             THEN "yes"
        ELSE "no"

\* the body of the loop over the properties for one name: the comparisons
\* with every member, in declaration order
RECURSIVE MatchName(_, _, _)
MatchName(name, exts, acc) ==
    IF exts = <<>> \/ acc.panicked THEN acc
    ELSE LET same == Same(name, Head(exts).s)
         IN  MatchName(name, Tail(exts),
                 IF same = "panic" THEN [acc EXCEPT !.panicked = TRUE]
                 ELSE IF same = "yes"
                      THEN [acc EXCEPT !.extensions[Head(exts).ext] = TRUE]
                 ELSE acc)

\* the loop over the properties
RECURSIVE MatchProperties(_, _, _)
MatchProperties(properties, exts, acc) ==
    IF properties = <<>> \/ acc.panicked THEN acc
    ELSE MatchProperties(Tail(properties), exts, MatchName(Head(properties), exts, acc))

\* a returned extensions value
OkValue(v) == [tag |-> "Ok", err |-> None, value |-> v]

\* What supported_by_core_raw returns when the driver reports properties
SupportedByCoreRaw(properties) ==
    LET acc == MatchProperties(properties, InstanceExtensionsList,
                   [panicked |-> FALSE, extensions |-> none(InstanceExtensionsList)])
    IN  IF acc.panicked THEN Panic ELSE OkValue(acc.extensions)

\* the builder is not touched by the functions that follow
BuilderUnchanged ==
    UNCHANGED <<cmd, device, pool, keep_alive, current_graphics_pipeline,
                current_compute_pipeline, current_dynamic_state, secondary_cb,
                within_render_pass, builder, overflow_checks>>

supported_by_core_raw(properties) ==
    /\ call' = [op |-> "supported_by_core_raw", properties |-> properties]
    /\ result' = SupportedByCoreRaw(properties)
    /\ BuilderUnchanged

BuildExtensionsList(exts, self) ==
    /\ call' = [op |-> "build_extensions_list", exts |-> exts, self |-> self]
    /\ result' = BuildResult(exts, self)
    /\ BuilderUnchanged

Intersection(exts, self, other) ==
    /\ call' = [op |-> "intersection", exts |-> exts, self |-> self, other |-> other]
    /\ result' = OkValue(intersection(self, other))
    /\ BuilderUnchanged

---------------------------------------------------------------------------
(* SpecSupported: one call of InstanceExtensions::supported_by_core_raw *)

\* the largest number of properties the driver reports
MaxProperties == 2

\* the names of the members of InstanceExtensions
KnownNames == {InstanceExtensionsList[k].s : k \in 1..Len(InstanceExtensionsList)}

\* the byte '2'
Digit2 == 50

\* the names the driver reports: the known names, each without its last
\* byte, each followed by one more byte, the empty name and a name that
\* shares no prefix with a known one
ReportedNames ==
    KnownNames
    \cup {SubSeq(s, 1, Len(s) - 1) : s \in KnownNames}
    \cup {Append(s, Digit2) : s \in KnownNames}
    \cup {<<>>, <<Digit2>>}

\* no builder is involved
InitSupported ==
    /\ Init
    /\ pool.supports_graphics /\ pool.supports_compute
    /\ ~within_render_pass /\ ~overflow_checks

SupportedCall ==
    /\ call = NoCall
    /\ \E properties \in SeqsUpTo(ReportedNames, MaxProperties) :
         supported_by_core_raw(properties)

NextSupported == SupportedCall

SpecSupported == InitSupported /\ [][NextSupported]_vars

---------------------------------------------------------------------------
(* Sampler::new *)

\* an f32: a NaN, or a number counted in halves
NaN == [nan |-> TRUE, halves |-> 0]

F32(halves) == [nan |-> FALSE, halves |-> halves]

\* the comparisons of f32: every comparison with a NaN is false
FGe(a, b) == ~a.nan /\ ~b.nan /\ a.halves >= b.halves

FLe(a, b) == ~a.nan /\ ~b.nan /\ a.halves <= b.halves

FGt(a, b) == ~a.nan /\ ~b.nan /\ a.halves > b.halves

FLt(a, b) == ~a.nan /\ ~b.nan /\ a.halves < b.halves

\* 1.0
One == F32(2)

\* a returned limit error
LimitExceeded(e, requested, maximum) ==
    [tag |-> "Err", err |-> e, requested |-> requested, maximum |-> maximum,
     create_info |-> <<>>]

\* a returned error without fields; create_info holds what CreateSampler was
\* called with and is empty if it was not called
SamplerErr(e, create_info) == [tag |-> "Err", err |-> e, create_info |-> create_info]

SamplerPanic == [tag |-> "Panic", err |-> None, create_info |-> <<>>]

SamplerOk(create_info) == [tag |-> "Ok", err |-> None, create_info |-> create_info]

\* the vk::SamplerCreateInfo of Sampler::new
SamplerCreateInfo(mip_lod_bias, max_anisotropy, min_lod, max_lod) ==
    [mipLodBias |-> mip_lod_bias,
     anisotropyEnable |-> FGt(max_anisotropy, One),
     maxAnisotropy |-> max_anisotropy,
     minLod |-> min_lod,
     maxLod |-> max_lod]

\* the checks on the device and the creation; driver is what CreateSampler
\* returns
SamplerNewChecked(dev, mip_lod_bias, max_anisotropy, min_lod, max_lod, driver) ==
    IF FGt(max_anisotropy, One) /\ ~dev.sampler_anisotropy
    THEN SamplerErr("SamplerAnisotropyFeatureNotEnabled", <<>>)
    ELSE IF FGt(max_anisotropy, One) /\ FGt(max_anisotropy, dev.max_sampler_anisotropy)
    THEN LimitExceeded("AnisotropyLimitExceeded", max_anisotropy,
                       dev.max_sampler_anisotropy)
    ELSE IF FGt(mip_lod_bias, dev.max_sampler_lod_bias)
    THEN LimitExceeded("MipLodBiasLimitExceeded", mip_lod_bias, dev.max_sampler_lod_bias)
    ELSE LET infos == SamplerCreateInfo(mip_lod_bias, max_anisotropy, min_lod, max_lod)
         IN  IF driver = "SUCCESS" THEN SamplerOk(<<infos>>)
             ELSE SamplerErr(driver, <<infos>>)

\* Sampler::new with the assertions made after the checks on the device
SamplerNewAssertsLast(dev, mip_lod_bias, max_anisotropy, min_lod, max_lod, driver) ==
    LET r == SamplerNewChecked(dev, mip_lod_bias, max_anisotropy, min_lod, max_lod,
                               driver)
    IN  IF r.tag = "Err" /\ r.create_info = <<>> THEN r
        ELSE IF ~FGe(max_anisotropy, One) THEN SamplerPanic
        ELSE IF ~FLe(min_lod, max_lod) THEN SamplerPanic
        ELSE r

\* Sampler::new with the limit of the lod bias checked before the anisotropy
SamplerNewBiasFirst(dev, mip_lod_bias, max_anisotropy, min_lod, max_lod, driver) ==
    IF ~FGe(max_anisotropy, One) THEN SamplerPanic
    ELSE IF ~FLe(min_lod, max_lod) THEN SamplerPanic
    ELSE IF FGt(mip_lod_bias, dev.max_sampler_lod_bias)
    THEN LimitExceeded("MipLodBiasLimitExceeded", mip_lod_bias, dev.max_sampler_lod_bias)
    ELSE SamplerNewChecked(dev, mip_lod_bias, max_anisotropy, min_lod, max_lod, driver)

\* What Sampler::new returns
SamplerNew(dev, mip_lod_bias, max_anisotropy, min_lod, max_lod, driver) ==
    IF ~FGe(max_anisotropy, One) THEN SamplerPanic
    ELSE IF ~FLe(min_lod, max_lod) THEN SamplerPanic
    ELSE SamplerNewChecked(dev, mip_lod_bias, max_anisotropy, min_lod, max_lod, driver)

Sampler_new(dev, mip_lod_bias, max_anisotropy, min_lod, max_lod, driver) ==
    /\ call' = [op |-> "Sampler::new", device |-> dev, mip_lod_bias |-> mip_lod_bias,
                max_anisotropy |-> max_anisotropy, min_lod |-> min_lod,
                max_lod |-> max_lod, driver |-> driver]
    /\ result' = SamplerNew(dev, mip_lod_bias, max_anisotropy, min_lod, max_lod, driver)
    /\ BuilderUnchanged

---------------------------------------------------------------------------
(* SpecExtensions: one call of build_extensions_list or of intersection *)

\* the two structs built with extensions!
ExtensionsStructs == {InstanceExtensionsList, DeviceExtensionsList}

BuildCall ==
    /\ call = NoCall
    /\ \E exts \in ExtensionsStructs :
         \E self \in ExtensionsValues(exts) : BuildExtensionsList(exts, self)

IntersectionCall ==
    /\ call = NoCall
    /\ \E exts \in ExtensionsStructs :
         \E self \in ExtensionsValues(exts), other \in ExtensionsValues(exts) :
            Intersection(exts, self, other)

NextExtensions == BuildCall \/ IntersectionCall

SpecExtensions == InitSupported /\ [][NextExtensions]_vars

---------------------------------------------------------------------------
(* SpecSampler: one call of Sampler::new *)

\* the devices: with or without the sampler_anisotropy feature; the limit of
\* the anisotropy is 1.0 or 16.0, the limit of the lod bias 2.0 or 4.0
SamplerDevices ==
    [sampler_anisotropy : BOOLEAN,
     max_sampler_anisotropy : {One, F32(32)},
     max_sampler_lod_bias : {F32(4), F32(8)}]

\* NaN, 0.0, 3.0, 5.0, 100.0
MipLodBiases == {NaN, F32(0), F32(6), F32(10), F32(200)}

\* NaN, 0.5, 1.0, 2.0, 16.0, 100.0
MaxAnisotropies == {NaN, F32(1), One, F32(4), F32(32), F32(200)}

\* NaN, 0.0, 2.0, 5.0
Lods == {NaN, F32(0), F32(4), F32(10)}

\* what vkCreateSampler returns
DriverResults == {"SUCCESS", "OomError", "TooManyObjects"}

SamplerCall ==
    /\ call = NoCall
    /\ \E dev \in SamplerDevices, mip_lod_bias \in MipLodBiases,
          max_anisotropy \in MaxAnisotropies, min_lod \in Lods, max_lod \in Lods,
          driver \in DriverResults :
         Sampler_new(dev, mip_lod_bias, max_anisotropy, min_lod, max_lod, driver)

NextSampler == SamplerCall

SpecSampler == InitSupported /\ [][NextSampler]_vars

---------------------------------------------------------------------------
(* Properties: helpers *)

Range(seq) == {seq[i] : i \in 1..Len(seq)}

IsPrefix(s, t) == Len(s) <= Len(t) /\ SubSeq(t, 1, Len(s)) = s

\* the last step was a call of op
Called(op) == call.op = op

\* the buffer arguments of the last call
CallBuffers ==
    IF Called("copy") THEN {call.src, call.dest}
    ELSE IF Called("fill") \/ Called("update") THEN {call.buffer.buffer}
    ELSE {}

\* cmd' is cmd with exactly one command appended
OneCommandAppended == Len(cmd') = Len(cmd) + 1 /\ IsPrefix(cmd, cmd')

\* the part of the builder state other than the command buffer and the
\* keep-alive list
renderState == <<within_render_pass, current_graphics_pipeline,
                 current_compute_pipeline, current_dynamic_state>>

---------------------------------------------------------------------------
(* Keep-alive list *)

\* C1: every buffer named by a native command recorded so far (source and
\* destination of a copy, target of a fill or update) is in the keep-alive
\* list of the builder.
C1_RecordedBuffersKeptAlive ==
    builder = "held" =>
        \A i \in 1..Len(cmd) : CommandBuffers(cmd[i]) \subseteq Range(keep_alive)

\* a builder holding a copy between two different buffers and a fill or update
C1_Witness ==
    /\ builder = "held"
    /\ Len(cmd) = 2
    /\ cmd[1].op = "CmdCopyBuffer" /\ cmd[1].srcBuffer # cmd[1].dstBuffer
    /\ cmd[2].op # "CmdCopyBuffer"

\* C2: the keep-alive list before any call (successful, no-op or rejected) is
\* a prefix of the list after it: nothing is removed or reordered.
C2_KeepAliveOnlyGrows == [][IsPrefix(keep_alive, keep_alive')]_vars

\* a second buffer was pushed behind a different one
C2_Witness ==
    /\ Len(keep_alive) >= 3
    /\ keep_alive[1] # keep_alive[3]
    /\ Called("fill") /\ result.tag = "Ok"

\* C3: a call that returns an error appended no native command and left the
\* keep-alive list, within_render_pass, the bound pipelines and the dynamic
\* state as they were.
C3_ErrorLeavesBuilderUnchanged ==
    [][result'.tag = "Err" =>
         /\ cmd' = cmd
         /\ keep_alive' = keep_alive
         /\ renderState' = renderState]_vars

\* a copy whose regions passed the bounds checks was rejected for overlapping
\* regions on a builder that had recorded a command
C3_Witness ==
    /\ Called("copy")
    /\ result = Err("OverlappingRegions")
    /\ Len(cmd) >= 1 /\ Len(keep_alive) >= 1

\* C4: a copy that succeeds with a region of non-zero size appends exactly one
\* copy command and the two entries source, destination; a fill or update
\* that succeeds on a slice of non-zero size appends exactly one command and
\* one entry; the entries are appended whether or not the list holds them.
C4_SuccessAppendsOnce ==
    [][/\ (/\ call'.op = "copy"
           /\ result'.tag = "Ok"
           /\ \E i \in 1..Len(call'.regions) : call'.regions[i].size # 0)
          => /\ OneCommandAppended
             /\ cmd'[Len(cmd')].op = "CmdCopyBuffer"
             /\ keep_alive' = keep_alive \o <<call'.src, call'.dest>>
       /\ (/\ call'.op \in {"fill", "update"}
           /\ result'.tag = "Ok"
           /\ call'.buffer.size # 0)
          => /\ OneCommandAppended
             /\ cmd'[Len(cmd')].op =
                  (IF call'.op = "fill" THEN "CmdFillBuffer" ELSE "CmdUpdateBuffer")
             /\ keep_alive' = keep_alive \o <<call'.buffer.buffer>>]_vars

\* a successful copy whose source was already in the keep-alive list
C4_Witness ==
    /\ Called("copy") /\ result.tag = "Ok"
    /\ Len(cmd) = 2 /\ Len(keep_alive) >= 3
    /\ cmd[2].op = "CmdCopyBuffer"
    /\ \E i \in 1..(Len(keep_alive) - 2) : keep_alive[i] = call.src

---------------------------------------------------------------------------
(* Render pass scope, device identity, usage flags *)

ForeignBuffer == \E b \in CallBuffers : b.device # pool.device

C7_CopyWrongUsageFlag ==
    (Called("copy") /\ ~within_render_pass /\ ~ForeignBuffer) =>
        (result = Err("WrongUsageFlag")
            <=> (~call.src.usage_transfer_src \/ ~call.dest.usage_transfer_dest))

\* only the destination flag is missing and the region is out of range
C7_Witness ==
    /\ Called("copy") /\ ~within_render_pass /\ ~ForeignBuffer
    /\ call.src.usage_transfer_src /\ ~call.dest.usage_transfer_dest
    /\ call.regions = <<Region(4, 0, SeqBufferSize)>>
    /\ result = Err("WrongUsageFlag")

\* C8 as claimed: outside a render pass and on a buffer of the device, fill
\* and update return WrongUsageFlag iff the buffer lacks transfer-destination
\* usage.
C8_FillUpdateNeedTransferDest ==
    ((Called("fill") \/ Called("update")) /\ ~within_render_pass /\ ~ForeignBuffer) =>
        (result = Err("WrongUsageFlag") <=> ~call.buffer.buffer.usage_transfer_dest)

---------------------------------------------------------------------------
(* Bounds of the regions of a copy *)

\* the last call was a copy that passed the render pass, device and usage
\* checks
CopyPassedGuard ==
    /\ Called("copy") /\ ~within_render_pass /\ ~ForeignBuffer
    /\ call.src.usage_transfer_src /\ call.dest.usage_transfer_dest

\* region does not fit the buffers, the sums being taken in the integers
OutOfBounds(region, src, dest) ==
    \/ region.source_offset + region.size > src.size
    \/ region.destination_offset + region.size > dest.size

\* a sum of region does not fit the machine word
SumOverflows(region) ==
    \/ Overflows(region.source_offset, region.size)
    \/ Overflows(region.destination_offset, region.size)

\* C9: a copy that passed the guard and whose sums do not overflow returns
\* OutOfRange iff some region of the input, of size 0 or not, does not fit
\* the source or the destination.
C9_OutOfRange ==
    (CopyPassedGuard /\ \A i \in 1..Len(call.regions) : ~SumOverflows(call.regions[i])) =>
        (result = Err("OutOfRange")
            <=> \E i \in 1..Len(call.regions) :
                    OutOfBounds(call.regions[i], call.src, call.dest))

\* the only region that does not fit has size 0, and it comes after a region
\* that was accepted
C9_Witness ==
    /\ CopyPassedGuard
    /\ Len(call.regions) = 2
    /\ call.regions[1].size # 0 /\ ~OutOfBounds(call.regions[1], call.src, call.dest)
    /\ call.regions[2].size = 0 /\ OutOfBounds(call.regions[2], call.src, call.dest)
    /\ result = Err("OutOfRange")

\* C10 as claimed: a copy that passed the guard returns OutOfRange whenever a
\* sum of a region, taken in the integers, exceeds the size of its buffer,
\* sums beyond the largest machine word included.
C10_BoundsWithoutWraparound ==
    (CopyPassedGuard /\ \E i \in 1..Len(call.regions) :
                            OutOfBounds(call.regions[i], call.src, call.dest))
        => result = Err("OutOfRange")

---------------------------------------------------------------------------
(* Regions recorded by a copy *)

\* the regions of the input whose size is not 0, as vk::BufferCopy, in order
RECURSIVE NonEmptyRegions(_)
NonEmptyRegions(regions) ==
    IF regions = <<>> THEN <<>>
    ELSE (IF Head(regions).size # 0
          THEN <<[srcOffset |-> Head(regions).source_offset,
                  dstOffset |-> Head(regions).destination_offset,
                  size |-> Head(regions).size]>>
          ELSE <<>>)
         \o NonEmptyRegions(Tail(regions))

\* the last call was a copy that returned Ok and recorded a command
CopyRecorded ==
    /\ Called("copy") /\ result.tag = "Ok"
    /\ Len(cmd) >= 1 /\ cmd[Len(cmd)].op = "CmdCopyBuffer"
    /\ \E i \in 1..Len(call.regions) : call.regions[i].size # 0

\* C11: the region list of the command recorded by a successful copy is the
\* input list without its entries of size 0: every other region once, with
\* its offsets and size, in the order of the input.
C11_ElisionIsExact ==
    CopyRecorded =>
        /\ cmd[Len(cmd)].pRegions = NonEmptyRegions(call.regions)
        /\ cmd[Len(cmd)].regionCount = Len(NonEmptyRegions(call.regions))

\* a region of size 0 is elided from a list whose other region is recorded
\* and has two different offsets
C11_Witness ==
    /\ CopyRecorded
    /\ Len(call.regions) >= 2
    /\ \E i \in 1..Len(call.regions) : call.regions[i].size = 0
    /\ \E i \in 1..Len(call.regions) :
         /\ call.regions[i].size # 0
         /\ call.regions[i].source_offset # call.regions[i].destination_offset

---------------------------------------------------------------------------
(* Appends that record nothing *)

\* the last call was a fill or update that passed the render pass and device
\* checks and the usage check the operations make (on transfer-source usage,
\* see C8)
SlicePassedGuard ==
    /\ (Called("fill") \/ Called("update")) /\ ~within_render_pass /\ ~ForeignBuffer
    /\ call.buffer.buffer.usage_transfer_src

\* the queue family of the pool supports graphics or compute
QueueFamilySupportsFill == pool.supports_graphics \/ pool.supports_compute

\* the last call passed its guards and its effective region is empty
EmptyAppend ==
    \/ /\ CopyPassedGuard
       /\ \A i \in 1..Len(call.regions) :
            /\ call.regions[i].size = 0
            /\ ~OutOfBounds(call.regions[i], call.src, call.dest)
    \/ /\ SlicePassedGuard
       /\ Called("fill") => QueueFamilySupportsFill
       /\ call.buffer.size = 0
       /\ call.buffer.offset % 4 = 0

\* C12: a copy whose list is empty or holds only regions of size 0 that are
\* in bounds, and a fill or update of a slice of size 0 at an aligned offset,
\* return Ok, record no command and leave the keep-alive list and the rest of
\* the builder as they were.
C12_EmptyAppendIsNoOp ==
    [][EmptyAppend' =>
         /\ result' = Ok
         /\ builder' = "held"
         /\ fields' = fields]_vars

\* a copy of one region of size 0 on a builder that holds a command
C12_Witness ==
    /\ EmptyAppend
    /\ Called("copy") /\ call.regions = <<Region(0, 0, 0)>>
    /\ result = Ok
    /\ Len(cmd) = 1 /\ Len(keep_alive) >= 1

---------------------------------------------------------------------------
(* Overlapping regions of a copy *)

\* the half-open intervals [a, a+sa) and [b, b+sb) overlap
HalfOpenOverlap(a, sa, b, sb) == a < b + sb /\ b < a + sa

\* every region of the last copy fits both buffers
AllInBounds ==
    \A i \in 1..Len(call.regions) : ~OutOfBounds(call.regions[i], call.src, call.dest)

\* the positions of the regions of non-zero size of the last copy
NonEmptyPositions == {i \in 1..Len(call.regions) : call.regions[i].size # 0}

\* the source intervals of regions i and j overlap
SrcOverlap(i, j) ==
    HalfOpenOverlap(call.regions[i].source_offset, call.regions[i].size,
                    call.regions[j].source_offset, call.regions[j].size)

\* the destination intervals of regions i and j overlap
DstOverlap(i, j) ==
    HalfOpenOverlap(call.regions[i].destination_offset, call.regions[i].size,
                    call.regions[j].destination_offset, call.regions[j].size)

\* C13: a copy that passes the guards and whose regions are all in bounds is
\* rejected with OverlappingRegions whenever two of its regions of non-zero
\* size have overlapping half-open source intervals or overlapping half-open
\* destination intervals, at any two positions and whichever starts first.
C13_OverlapRejected ==
    (/\ CopyPassedGuard
     /\ AllInBounds
     /\ \E i, j \in NonEmptyPositions :
          i # j /\ (SrcOverlap(i, j) \/ DstOverlap(i, j)))
        => result = Err("OverlappingRegions")

\* the destination intervals alone overlap and the later region of the list
\* starts first
C13_Witness ==
    /\ CopyPassedGuard /\ AllInBounds
    /\ call.src # call.dest
    /\ \E i, j \in NonEmptyPositions :
         /\ i < j
         /\ ~SrcOverlap(i, j)
         /\ call.regions[i].source_offset > call.regions[j].source_offset + call.regions[j].size
         /\ DstOverlap(i, j)
         /\ call.regions[j].destination_offset < call.regions[i].destination_offset
    /\ result = Err("OverlappingRegions")

\* the source interval of region i overlaps the destination interval of
\* region j
CrossOverlap(i, j) ==
    HalfOpenOverlap(call.regions[i].source_offset, call.regions[i].size,
                    call.regions[j].destination_offset, call.regions[j].size)

\* C14 as claimed: a copy within one buffer object is rejected with
\* OverlappingRegions whenever the source interval of a region of non-zero
\* size overlaps the destination interval of another one, whichever of the
\* two intervals starts first.
C14_CrossOverlapRejected ==
    (/\ CopyPassedGuard
     /\ AllInBounds
     /\ internal_object(call.src) = internal_object(call.dest)
     /\ \E i, j \in NonEmptyPositions : i # j /\ CrossOverlap(i, j))
        => result = Err("OverlappingRegions")

\* the closed intervals [a, a+sa] and [b, b+sb] meet: the half-open ones
\* overlap or touch
ClosedOverlap(a, sa, b, sb) == a <= b + sb /\ b <= a + sa

\* the source intervals of regions i and j overlap or touch
SrcMeet(i, j) ==
    ClosedOverlap(call.regions[i].source_offset, call.regions[i].size,
                  call.regions[j].source_offset, call.regions[j].size)

\* the destination intervals of regions i and j overlap or touch
DstMeet(i, j) ==
    ClosedOverlap(call.regions[i].destination_offset, call.regions[i].size,
                  call.regions[j].destination_offset, call.regions[j].size)

\* the last copy was between two buffer objects, passed the guards and all
\* its regions are in bounds
DistinctInBoundsCopy ==
    /\ CopyPassedGuard
    /\ AllInBounds
    /\ internal_object(call.src) # internal_object(call.dest)

\* the last copy returned Ok and, if a region has non-zero size, the builder
\* holds one copy command with the regions of non-zero size in input order
SucceededAndRecorded ==
    /\ result = Ok
    /\ NonEmptyPositions # {} =>
         cmd = <<CmdCopyBuffer(call.src, call.dest, NonEmptyRegions(call.regions))>>

\* C15 as claimed: a copy between two buffer objects succeeds and records its
\* regions of non-zero size whenever no two of them overlap under the
\* half-open test on source or on destination.
C15_HalfOpenDisjointSucceeds ==
    (/\ DistinctInBoundsCopy
     /\ \A i, j \in NonEmptyPositions :
          i # j => ~SrcOverlap(i, j) /\ ~DstOverlap(i, j))
        => SucceededAndRecorded

\* C15: a copy between two buffer objects succeeds whenever no two of its
\* regions of non-zero size overlap or touch on source or on destination; it
\* records one command with one region per input of non-zero size, in input
\* order, if there is such an input, and no command otherwise.
C15_ApartSucceeds ==
    (/\ DistinctInBoundsCopy
     /\ \A i, j \in NonEmptyPositions :
          i # j => ~SrcMeet(i, j) /\ ~DstMeet(i, j))
        => /\ SucceededAndRecorded
           /\ NonEmptyPositions = {} => cmd = <<>>

\* two regions that are apart on source and on destination, the source
\* interval of one overlapping the destination interval of the other, are
\* recorded by a copy between two buffer objects
C15_Witness ==
    /\ DistinctInBoundsCopy
    /\ \E i, j \in NonEmptyPositions :
         /\ i # j
         /\ ~SrcMeet(i, j) /\ ~DstMeet(i, j)
         /\ CrossOverlap(i, j)
    /\ result = Ok
    /\ Len(cmd) = 1 /\ cmd[1].regionCount = 2

\* the source interval or the destination interval of region i ends where
\* that of region j starts
Touch(i, j) ==
    \/ call.regions[i].source_offset + call.regions[i].size
         = call.regions[j].source_offset
    \/ call.regions[i].destination_offset + call.regions[i].size
         = call.regions[j].destination_offset

\* C16: a copy that passes the guards and whose regions are all in bounds is
\* rejected with OverlappingRegions when the source intervals or the
\* destination intervals of two of its regions of non-zero size touch, one
\* ending at the offset where the other starts.
C16_TouchingRejected ==
    (/\ CopyPassedGuard
     /\ AllInBounds
     /\ \E i, j \in NonEmptyPositions : i # j /\ Touch(i, j))
        => result = Err("OverlappingRegions")

\* two regions between two buffer objects whose source intervals touch and
\* that overlap neither on source nor on destination are rejected
C16_Witness ==
    /\ DistinctInBoundsCopy
    /\ Len(call.regions) = 2 /\ NonEmptyPositions = {1, 2}
    /\ call.regions[2].source_offset + call.regions[2].size
         = call.regions[1].source_offset
    /\ ~SrcOverlap(1, 2) /\ ~DstMeet(1, 2)
    /\ result = Err("OverlappingRegions")

---------------------------------------------------------------------------
(* Checks of fill and update *)

\* the slice of the last call is not aligned to 4 bytes
Misaligned == call.buffer.offset % 4 # 0 \/ call.buffer.size % 4 # 0

\* C17: a fill or update that passes the render pass, device and usage
\* checks returns WrongAlignment iff the offset or the size of the slice is
\* not a multiple of 4.
C17_WrongAlignment ==
    SlicePassedGuard => (result = Err("WrongAlignment") <=> Misaligned)

\* a fill whose offset is aligned and whose size is not, on a queue family
\* that supports neither graphics nor compute
C17_Witness ==
    /\ SlicePassedGuard /\ Called("fill")
    /\ call.buffer.offset = 4 /\ call.buffer.size = 2
    /\ ~QueueFamilySupportsFill
    /\ result = Err("WrongAlignment")

\* C18 as claimed: a fill outside a render pass, on a buffer of the device
\* that has the usage flags, with an aligned slice of any size, 0 included,
\* on a queue family that supports neither graphics nor compute returns
\* NotSupportedByQueueFamily.
C18_FillNeedsGraphicsOrCompute ==
    (/\ Called("fill") /\ ~within_render_pass /\ ~ForeignBuffer
     /\ call.buffer.buffer.usage_transfer_src
     /\ call.buffer.buffer.usage_transfer_dest
     /\ ~Misaligned
     /\ ~QueueFamilySupportsFill)
        => result = Err("NotSupportedByQueueFamily")

\* the last call was an update of a slice of non-zero size that passed the
\* guards and the alignment check
UpdateReachedSizeLimit ==
    /\ SlicePassedGuard /\ Called("update")
    /\ ~Misaligned
    /\ call.buffer.size # 0

\* C19 as claimed: such an update returns RegionTooLarge iff the slice is
\* larger than 65536 bytes; a slice of 65536 bytes with data of at least
\* that size is accepted and its command recorded.
C19_RegionTooLargeAbove65536 ==
    UpdateReachedSizeLimit =>
        /\ result = Err("RegionTooLarge") <=> call.buffer.size > UpdateSizeLimit
        /\ (call.buffer.size = UpdateSizeLimit /\ call.data_size >= call.buffer.size)
             => /\ result = Ok
                /\ cmd = <<CmdUpdateBuffer(call.buffer, call.data_size)>>

\* C20: an update of a slice of non-zero size that passes the guards, the
\* alignment check and the size limit check returns DataTooSmall iff the
\* data is smaller than the slice; with data of the size of the slice or
\* larger it returns Ok and one command is recorded.
C20_DataTooSmall ==
    (UpdateReachedSizeLimit /\ result # Err("RegionTooLarge")) =>
        /\ result = Err("DataTooSmall") <=> call.data_size < call.buffer.size
        /\ call.data_size >= call.buffer.size
             => /\ result = Ok
                /\ cmd = <<CmdUpdateBuffer(call.buffer, call.data_size)>>

\* data of exactly the size of a large slice is accepted
C20_Witness ==
    /\ UpdateReachedSizeLimit
    /\ call.buffer.size = UpdateSizeLimit - 4
    /\ call.data_size = call.buffer.size
    /\ result = Ok
    /\ Len(cmd) = 1 /\ cmd[1].op = "CmdUpdateBuffer"

---------------------------------------------------------------------------
(* The builder after a call *)

\* C21 as claimed: after a call that returned a recoverable error the caller
\* still holds the builder, with its fields as they were before the call, so
\* that further calls can be made on it.
C21_ErrorKeepsBuilder ==
    [][result'.tag = "Err" => builder' = "held" /\ fields' = fields]_vars

\* the device and the pool the builder is bound to
binding == <<device, pool>>

\* C22: no copy, fill or update call, whether it records a command, is a
\* no-op or fails, changes within_render_pass, the bound graphics and
\* compute pipelines, the dynamic state, the secondary flag, or the device
\* and pool of the builder.
C22_CallsPreserveState ==
    [][/\ renderState' = renderState
       /\ secondary_cb' = secondary_cb
       /\ binding' = binding]_vars

\* a fill was recorded on a secondary builder with both bind points and the
\* dynamic state set
C22_Witness ==
    /\ Called("fill") /\ result = Ok
    /\ Len(cmd) = 1
    /\ secondary_cb
    /\ current_graphics_pipeline # None
    /\ current_compute_pipeline # None
    /\ current_dynamic_state # "none"

---------------------------------------------------------------------------
(* The error values *)

\* C23 as claimed: the RegionTooLarge error returned by update carries the
\* size of the slice that was asked for and the largest size allowed.
C23_RegionTooLargeCarriesSizes ==
    (Called("update") /\ result.tag = "Err" /\ result.err = "RegionTooLarge") =>
        /\ {"requested", "maximum"} \subseteq DOMAIN result
        /\ result.requested = call.buffer.size
        /\ result.maximum = UpdateSizeLimit

---------------------------------------------------------------------------
(* Extensions *)

\* the properties reported in the last call of supported_by_core_raw
Reported == Range(call.properties)

\* C24 as claimed: supported_by_core_raw returns, for every list of reported
\* names, a value whose members are true exactly for the names that are in
\* the list, and never panics.
C24_FlagsOfReportedNames ==
    Called("supported_by_core_raw") =>
        /\ result.tag = "Ok"
        /\ \A k \in 1..Len(InstanceExtensionsList) :
             result.value[InstanceExtensionsList[k].ext]
                <=> InstanceExtensionsList[k].s \in Reported

---------------------------------------------------------------------------
(* Sampler::new *)

\* the arguments of the last call of Sampler::new fail an assertion of the
\* documentation: max_anisotropy < 1.0 or min_lod > max_lod
BadSamplerArguments ==
    \/ FLt(call.max_anisotropy, One)
    \/ FGt(call.min_lod, call.max_lod)

\* the last call of Sampler::new violates a constraint of the device
ViolatesDevice ==
    \/ FGt(call.max_anisotropy, One) /\ ~call.device.sampler_anisotropy
    \/ FGt(call.max_anisotropy, call.device.max_sampler_anisotropy)
    \/ FGt(call.mip_lod_bias, call.device.max_sampler_lod_bias)

\* C25: Sampler::new panics whenever max_anisotropy < 1.0 or min_lod >
\* max_lod, also when a feature or limit of the device is violated: it
\* returns no error value and CreateSampler is not called.
C25_BadArgumentsPanic ==
    (Called("Sampler::new") /\ BadSamplerArguments) =>
        /\ result.tag = "Panic"
        /\ result.create_info = <<>>

\* min_lod > max_lod with an anisotropy the device has no feature for and a
\* lod bias above the limit of the device
C25_Witness ==
    /\ Called("Sampler::new")
    /\ FGt(call.min_lod, call.max_lod)
    /\ FGt(call.max_anisotropy, One) /\ ~call.device.sampler_anisotropy
    /\ FGt(call.mip_lod_bias, call.device.max_sampler_lod_bias)
    /\ result.tag = "Panic"

\* what the last call of Sampler::new returns on device dev
ResultOn(dev) ==
    SamplerNew(dev, call.mip_lod_bias, call.max_anisotropy, call.min_lod,
               call.max_lod, call.driver)

\* C26: when the assertions pass, Sampler::new reports, in this order and
\* without calling CreateSampler: the missing sampler_anisotropy feature
\* when max_anisotropy > 1.0; max_anisotropy above the limit of the device,
\* with the value asked for and the limit; mip_lod_bias above the limit of
\* the device, with the value asked for and the limit.  With max_anisotropy
\* equal to 1.0 the result does not depend on the feature or on the limit of
\* the anisotropy.
C26_DeviceConstraintsInOrder ==
    (/\ Called("Sampler::new")
     /\ FGe(call.max_anisotropy, One)
     /\ FLe(call.min_lod, call.max_lod)) =>
        /\ IF FGt(call.max_anisotropy, One) /\ ~call.device.sampler_anisotropy
           THEN result = SamplerErr("SamplerAnisotropyFeatureNotEnabled", <<>>)
           ELSE IF FGt(call.max_anisotropy, call.device.max_sampler_anisotropy)
           THEN result = LimitExceeded("AnisotropyLimitExceeded", call.max_anisotropy,
                                       call.device.max_sampler_anisotropy)
           ELSE IF FGt(call.mip_lod_bias, call.device.max_sampler_lod_bias)
           THEN result = LimitExceeded("MipLodBiasLimitExceeded", call.mip_lod_bias,
                                       call.device.max_sampler_lod_bias)
           ELSE result.create_info # <<>>
        /\ call.max_anisotropy = One =>
             \A dev \in SamplerDevices :
                dev.max_sampler_lod_bias = call.device.max_sampler_lod_bias
                    => ResultOn(dev) = result

\* the anisotropy is above the limit of a device that has the feature, and
\* the lod bias is above its limit too
C26_Witness ==
    /\ Called("Sampler::new")
    /\ FLe(call.min_lod, call.max_lod)
    /\ call.device.sampler_anisotropy
    /\ FGt(call.max_anisotropy, call.device.max_sampler_anisotropy)
    /\ FGt(call.mip_lod_bias, call.device.max_sampler_lod_bias)
    /\ result.tag = "Err" /\ result.err = "AnisotropyLimitExceeded"
    /\ result.requested = call.max_anisotropy

---------------------------------------------------------------------------
(* Extension lists *)

\* the name of a member as build_extensions_list pushes it
CName(s) == Append(s, 0)

\* the position of the name n in the declaration of exts
DeclIndex(exts, n) == CHOOSE k \in 1..Len(exts) : CName(exts[k].s) = n

\* the names, as pushed, of the members of v that are true
TrueNames(exts, v) == {CName(exts[k].s) : k \in {j \in 1..Len(exts) : v[exts[j].ext]}}

\* list holds exactly the names of the members of v that are true, each
\* once, in declaration order
ListsTrueMembers(exts, v, list) ==
    /\ Range(list) = TrueNames(exts, v)
    /\ Len(list) = Cardinality(TrueNames(exts, v))
    /\ \A i, j \in 1..Len(list) :
         i < j => DeclIndex(exts, list[i]) < DeclIndex(exts, list[j])

\* C27: build_extensions_list returns, for every value of InstanceExtensions
\* or DeviceExtensions, exactly the names of the members that are true, each
\* once, in declaration order, and the empty list for none(); the list built
\* from a.intersection(b) holds exactly the names that are in the list of a
\* and in the list of b.
C27_ListOfTrueMembers ==
    /\ Called("build_extensions_list") =>
         /\ result.tag = "Ok"
         /\ ListsTrueMembers(call.exts, call.self, result.value)
         /\ call.self = none(call.exts) => result.value = <<>>
    /\ Called("intersection") =>
         LET built == BuildResult(call.exts, result.value)
         IN  /\ built.tag = "Ok"
             /\ ListsTrueMembers(call.exts, result.value, built.value)
             /\ Range(built.value)
                  = Range(BuildResult(call.exts, call.self).value)
                      \cap Range(BuildResult(call.exts, call.other).value)

\* the intersection of two values of InstanceExtensions with different
\* members, neither within the other, that share two members
C27_Witness ==
    /\ Called("intersection")
    /\ call.exts = InstanceExtensionsList
    /\ \E e \in DOMAIN call.self : call.self[e] /\ ~call.other[e]
    /\ \E e \in DOMAIN call.self : ~call.self[e] /\ call.other[e]
    /\ Cardinality({e \in DOMAIN result.value : result.value[e]}) = 2

---------------------------------------------------------------------------
(* The recorded commands *)

\* the size, in bytes, a recorded fill or update command gives to the device
EncodedSize(c) == IF c.op = "CmdFillBuffer" THEN c.size ELSE c.dataSize

\* C28 as claimed: the command recorded by a successful fill or update of a
\* slice of non-zero size carries the buffer of the slice, its offset in
\* bytes and its size in bytes, the size that was validated.
C28_EncodingIsFaithful ==
    (/\ Called("fill") \/ Called("update")
     /\ result = Ok
     /\ call.buffer.size # 0) =>
        /\ Len(cmd) >= 1
        /\ cmd[Len(cmd)].dstBuffer = internal_object(call.buffer.buffer)
        /\ cmd[Len(cmd)].dstOffset = call.buffer.offset
        /\ EncodedSize(cmd[Len(cmd)]) = call.buffer.size

---------------------------------------------------------------------------
(* Order of the checks *)

\* the buffers of the last call lack a usage flag their operation needs: the
\* source or the destination flag of a copy, both flags of a fill or update
UsageLacking ==
    IF Called("copy")
    THEN ~call.src.usage_transfer_src \/ ~call.dest.usage_transfer_dest
    ELSE /\ ~call.buffer.buffer.usage_transfer_src
         /\ ~call.buffer.buffer.usage_transfer_dest

\* the buffer of a fill or update has both transfer flags or none, so that
\* it passes or fails the usage check whichever flag is tested (see C8)
UsageDecided ==
    Called("copy")
    \/ (call.buffer.buffer.usage_transfer_src <=> call.buffer.buffer.usage_transfer_dest)

\* the error of the first guard rule the last call violates: render pass
\* scope, usage flags, queue family capability; None if it violates none
GuardRuleError ==
    IF within_render_pass THEN "ForbiddenWithinRenderPass"
    ELSE IF UsageLacking THEN "WrongUsageFlag"
    ELSE IF Called("fill") /\ ~QueueFamilySupportsFill THEN "NotSupportedByQueueFamily"
    ELSE None

\* the last call violates a rule on its regions: a region of a copy out of
\* bounds, a slice of a fill or update not aligned
RegionRuleViolated ==
    IF Called("copy")
    THEN \E i \in 1..Len(call.regions) :
            OutOfBounds(call.regions[i], call.src, call.dest)
    ELSE Misaligned

\* C29 as claimed: a copy, fill or update on buffers of the device that
\* violates both a guard rule and a rule on its regions returns the error of
\* the guard rule.
C29_GuardErrorFirst ==
    (/\ Called("copy") \/ Called("fill") \/ Called("update")
     /\ ~ForeignBuffer
     /\ UsageDecided
     /\ GuardRuleError # None
     /\ RegionRuleViolated)
        => result = Err(GuardRuleError)

---------------------------------------------------------------------------
(* A single region *)

\* C30: a copy that passes the guards with all regions in bounds and exactly
\* one region of non-zero size does not return OverlappingRegions, also when
\* source and destination are one buffer object and the source range of the
\* region overlaps its destination range: it returns Ok and is recorded.
C30_SingleRegionRecorded ==
    (/\ CopyPassedGuard
     /\ AllInBounds
     /\ Cardinality(NonEmptyPositions) = 1)
        => /\ result = Ok
           /\ cmd = <<CmdCopyBuffer(call.src, call.dest, NonEmptyRegions(call.regions))>>

\* a copy within one buffer object of a region whose source range overlaps
\* its destination range, listed after a region of size 0
C30_Witness ==
    /\ CopyPassedGuard /\ AllInBounds
    /\ internal_object(call.src) = internal_object(call.dest)
    /\ Len(call.regions) = 2
    /\ NonEmptyPositions = {2}
    /\ CrossOverlap(2, 2)
    /\ call.regions[2].source_offset # call.regions[2].destination_offset
    /\ result = Ok
    /\ Len(cmd) = 1 /\ cmd[1].regionCount = 1

=============================================================================
